---- MODULE Spec2Model ----
(***************************************************************************)
(* Model of the optiland surface geometries (StandardGeometry,             *)
(* EvenAsphere, ChebyshevPolynomialGeometry) and of ParaxialRays.          *)
(*                                                                         *)
(* Numbers.  The code computes with IEEE doubles held in numpy arrays.     *)
(* A number is modelled as a record [t, n, d]: a finite rational n/d in    *)
(* lowest terms (t = "fin"), an infinity of sign n (t = "inf") or NaN      *)
(* (t = "nan").  The special values follow IEEE: inf - inf, 0 * inf and    *)
(* 0 / 0 are NaN, every comparison with NaN is false, sqrt of a negative   *)
(* number is NaN.  Finite results are exact (rounding is not modelled),    *)
(* and zero carries no sign: a quotient by zero takes the sign of its      *)
(* numerator.  The inputs of the scenes below are chosen so that every     *)
(* square root the code takes of a finite value is rational.               *)
(***************************************************************************)
EXTENDS Integers, Sequences, FiniteSets, TLC

VARIABLES
    rays,    \* the ray batch handed to the geometry: arrays x, y, z, L, M, N
    surf,    \* the surface: radius, k, c (EvenAsphere), cheb, norm_x, norm_y
    out,     \* what the last surface query returned (or that it raised)
    nr,      \* the Newton-Raphson intersector's working state
    prays,   \* a ParaxialRays instance
    lump,    \* a second ParaxialRays instance built from the same arguments
    ghost,   \* bookkeeping of the propagate calls made so far
    heap,    \* Python list objects, by identity
    insts    \* the geometry instances constructed so far

vars == <<rays, surf, out, nr, prays, lump, ghost, heap, insts>>

-----------------------------------------------------------------------------
(* Extended rational arithmetic                                            *)

Absi(i) == IF i < 0 THEN -i ELSE i

RECURSIVE GCD(_, _)
GCD(a, b) == IF b = 0 THEN a ELSE GCD(b, a % b)

NaN == [t |-> "nan", n |-> 0, d |-> 1]
PInf == [t |-> "inf", n |-> 1, d |-> 1]
NInf == [t |-> "inf", n |-> -1, d |-> 1]

\* the rational n/d (d # 0) in lowest terms with a positive denominator
Fin(n, d) ==
    LET g == GCD(Absi(n), Absi(d))
        s == IF d < 0 THEN -1 ELSE 1
    IN  [t |-> "fin", n |-> (s * n) \div g, d |-> Absi(d) \div g]

Q(i) == [t |-> "fin", n |-> i, d |-> 1]

IsNaN(a) == a.t = "nan"
IsInf(a) == a.t = "inf"
IsFin(a) == a.t = "fin"
IsZero(a) == a.t = "fin" /\ a.n = 0

Sgn(a) == IF a.n > 0 THEN 1 ELSE IF a.n < 0 THEN -1 ELSE 0

InfOf(s) == IF s < 0 THEN NInf ELSE PInf

Neg(a) == [a EXCEPT !.n = -a.n]

Add(a, b) ==
    IF IsNaN(a) \/ IsNaN(b) THEN NaN
    ELSE IF IsInf(a) /\ IsInf(b) THEN (IF a.n = b.n THEN a ELSE NaN)
    ELSE IF IsInf(a) THEN a
    ELSE IF IsInf(b) THEN b
    ELSE Fin(a.n * b.d + b.n * a.d, a.d * b.d)

Sub(a, b) == Add(a, Neg(b))

Mul(a, b) ==
    IF IsNaN(a) \/ IsNaN(b) THEN NaN
    ELSE IF IsInf(a) \/ IsInf(b)
         THEN (IF Sgn(a) = 0 \/ Sgn(b) = 0 THEN NaN ELSE InfOf(Sgn(a) * Sgn(b)))
    ELSE Fin(a.n * b.n, a.d * b.d)

Div(a, b) ==
    IF IsNaN(a) \/ IsNaN(b) THEN NaN
    ELSE IF IsInf(a) THEN (IF IsInf(b) THEN NaN
                           ELSE InfOf(IF Sgn(b) < 0 THEN -a.n ELSE a.n))
    ELSE IF IsInf(b) THEN Q(0)
    ELSE IF b.n = 0 THEN (IF a.n = 0 THEN NaN ELSE InfOf(Sgn(a)))
    ELSE Fin(a.n * b.d, a.d * b.n)

\* comparisons: false as soon as a NaN is involved
Lt(a, b) ==
    IF IsNaN(a) \/ IsNaN(b) THEN FALSE
    ELSE IF IsInf(a) THEN a.n < 0 /\ ~(IsInf(b) /\ b.n < 0)
    ELSE IF IsInf(b) THEN b.n > 0
    ELSE a.n * b.d < b.n * a.d

Eq(a, b) == ~IsNaN(a) /\ ~IsNaN(b) /\ a = b
Le(a, b) == Lt(a, b) \/ Eq(a, b)
Gt(a, b) == Lt(b, a)

Abs(a) == IF a.n < 0 THEN Neg(a) ELSE a

ISqrt(i) == CHOOSE r \in 0..i : r * r <= i /\ (r + 1) * (r + 1) > i

\* np.sqrt: NaN below zero, exact on the squares of rationals
Sqrt(a) ==
    IF IsNaN(a) THEN NaN
    ELSE IF a.n < 0 THEN NaN
    ELSE IF IsInf(a) THEN PInf
    ELSE Fin(ISqrt(a.n), ISqrt(a.d))

RECURSIVE Pow(_, _)
Pow(a, e) == IF e = 0 THEN Q(1) ELSE Mul(a, Pow(a, e - 1))

-----------------------------------------------------------------------------
(* numpy arrays: sequences of numbers, combined element by element         *)

Bc(v, n) == [i \in 1..n |-> v]

AAdd(a, b) == [i \in 1..Len(a) |-> Add(a[i], b[i])]
ASub(a, b) == [i \in 1..Len(a) |-> Sub(a[i], b[i])]
AMul(a, b) == [i \in 1..Len(a) |-> Mul(a[i], b[i])]
ADiv(a, b) == [i \in 1..Len(a) |-> Div(a[i], b[i])]
ANeg(a) == [i \in 1..Len(a) |-> Neg(a[i])]
ASqrt(a) == [i \in 1..Len(a) |-> Sqrt(a[i])]
AScale(v, a) == [i \in 1..Len(a) |-> Mul(v, a[i])]
APow(a, e) == [i \in 1..Len(a) |-> Pow(a[i], e)]

RayFields == {"x", "y", "z", "L", "M", "N"}

\* A frame is the set of arrays a call can reach, by name: the six arrays of
\* the ray batch it was handed and the arrays it has bound to local names.
\* A numpy expression makes a new array (Bind); an augmented or a masked
\* assignment writes into the array its target is bound to (IAdd, SetMasked).
Bind(f, name, val) == (name :> val) @@ f

IAdd(f, name, val) == [f EXCEPT ![name] = AAdd(@, val)]

RaysOf(f) == [x |-> f.x, y |-> f.y, z |-> f.z, L |-> f.L, M |-> f.M, N |-> f.N]

\* the call's outcome: the batch as the call left it, the arrays returned
Returned(f, arrays) == [rays |-> RaysOf(f), err |-> FALSE, ret |-> arrays]

\* raise ValueError: nothing is returned
Raised(f) == [rays |-> RaysOf(f), err |-> TRUE, ret |-> <<>>]

\* a[mask] = vals[mask]
SetMasked(a, mask, vals) ==
    [i \in 1..Len(a) |-> IF mask[i] THEN vals[i] ELSE a[i]]

\* np.where(cond, a, b)
Where(cond, a, b) == [i \in 1..Len(a) |-> IF cond[i] THEN a[i] ELSE b[i]]

-----------------------------------------------------------------------------
(* StandardGeometry                                                        *)

\* return <the array bound to name>
Return1(f, name) == Returned(f, <<f[name]>>)

\* r2 = x**2 + y**2
R2(f) == AAdd(APow(f.x, 2), APow(f.y, 2))

\* np.sqrt(1 - (1 + self.k) * r2 / self.radius**2)
ConicRoot(s, r2) ==
    ASqrt(ASub(Bc(Q(1), Len(r2)),
               ADiv(AScale(Add(Q(1), s.k), r2), Bc(Pow(s.radius, 2), Len(r2)))))

\* r2 / (self.radius * (1 + np.sqrt(...)))
ConicSag(s, r2) ==
    ADiv(r2, AScale(s.radius, AAdd(Bc(Q(1), Len(r2)), ConicRoot(s, r2))))

StandardSag(f, s) == Returned(f, <<ConicSag(s, R2(f))>>)

QuadA(f, s) ==
    AAdd(AAdd(AAdd(AScale(s.k, APow(f.N, 2)), APow(f.L, 2)), APow(f.M, 2)),
         APow(f.N, 2))

QuadB(f, s) ==
    AAdd(ASub(AAdd(AAdd(AMul(AMul(Bc(Mul(Q(2), s.k), Len(f.x)), f.N), f.z),
                        AMul(AScale(Q(2), f.L), f.x)),
                   AMul(AScale(Q(2), f.M), f.y)),
              AScale(s.radius, AScale(Q(2), f.N))),
         AMul(AScale(Q(2), f.N), f.z))

QuadC(f, s) ==
    AAdd(AAdd(AAdd(ASub(AScale(s.k, APow(f.z, 2)),
                        AMul(Bc(Mul(Q(2), s.radius), Len(f.x)), f.z)),
                   APow(f.x, 2)),
              APow(f.y, 2)),
         APow(f.z, 2))

\* d = b ** 2 - 4 * a * c
Discriminant_Clamped(a, b, c) ==
    [i \in 1..Len(a) |->
        IF Lt(Mul(b[i], b[i]), Mul(Mul(Q(4), a[i]), c[i])) THEN Q(0)
        ELSE Sub(Mul(b[i], b[i]), Mul(Mul(Q(4), a[i]), c[i]))]

Discriminant(a, b, c) == ASub(APow(b, 2), AMul(AScale(Q(4), a), c))

\* t1 = (-b + np.sqrt(d)) / (2 * a); t2 = (-b - np.sqrt(d)) / (2 * a)
Roots(f, a, b, d) ==
    Bind(Bind(f, "t1", ADiv(AAdd(ANeg(b), ASqrt(d)), AScale(Q(2), a))),
         "t2", ADiv(ASub(ANeg(b), ASqrt(d)), AScale(Q(2), a)))

\* t1[t1 < 0] = np.inf
DropBehind(t) ==
    SetMasked(t, [i \in 1..Len(t) |-> Lt(t[i], Q(0))], Bc(PInf, Len(t)))

DropRoots(f) == [f EXCEPT !["t1"] = DropBehind(@), !["t2"] = DropBehind(@)]

\* z1 = rays.z + t1 * rays.N: the local `name` gets the height after `t`
Heights_InPlace(f, name, t) ==
    Bind(IAdd(f, "z", AMul(f[t], f.N)), name, AAdd(f.z, AMul(f[t], f.N)))

Heights(f, name, t) == Bind(f, name, AAdd(f.z, AMul(f[t], f.N)))

\* t = np.where(np.abs(z1) <= np.abs(z2), t1, t2)
Nearest(f) ==
    Bind(f, "t", Where([i \in 1..Len(f.t1) |-> Le(Abs(f.z1[i]), Abs(f.z2[i]))],
                       f.t1, f.t2))

\* t[a == 0] = -c[a == 0] / b[a == 0]
Linear(f, a, b, c) ==
    [f EXCEPT !["t"] =
        SetMasked(@, [i \in 1..Len(a) |-> Eq(a[i], Q(0))], ADiv(ANeg(c), b))]

Solve(f, a, b, c) ==
    Linear(Nearest(Heights(Heights(DropRoots(Roots(f, a, b, Discriminant(a, b, c))),
                                   "z1", "t1"),
                           "z2", "t2")),
           a, b, c)

DistanceFrame(f, s) == Solve(f, QuadA(f, s), QuadB(f, s), QuadC(f, s))

Distance(f, s) == Return1(DistanceFrame(f, s), "t")

\* mag = np.sqrt(dfdx**2 + dfdy**2 + dfdz**2)
Magnitude(dfdx, dfdy, dfdz) ==
    ASqrt(AAdd(AAdd(APow(dfdx, 2), APow(dfdy, 2)), APow(dfdz, 2)))

\* nx = dfdx / mag; ny = dfdy / mag; nz = dfdz / mag
Unit(dfdx, dfdy, dfdz, mag) ==
    <<ADiv(dfdx, mag), ADiv(dfdy, mag), ADiv(dfdz, mag)>>

StandardGradient(f, denom) ==
    Bind(Bind(Bind(f, "dfdx", ADiv(f.x, denom)), "dfdy", ADiv(f.y, denom)),
         "dfdz", Bc(Q(1), Len(f.x)))

StandardUnit(f) ==
    Returned(f, Unit(f.dfdx, f.dfdy, f.dfdz, Magnitude(f.dfdx, f.dfdy, f.dfdz)))

StandardSurfaceNormal(f, s) ==
    StandardUnit(StandardGradient(f, AScale(Neg(s.radius), ConicRoot(s, R2(f)))))

-----------------------------------------------------------------------------
(* EvenAsphere                                                             *)

\* for i, Ci in enumerate(self.c): z += Ci * r2 ** (i + 1)
RECURSIVE EvenSagLoop(_, _, _, _)
EvenSagLoop(f, c, r2, j) ==
    IF j > Len(c) THEN f
    ELSE EvenSagLoop(IAdd(f, "sag", AScale(c[j], APow(r2, j))), c, r2, j + 1)

\* r2 = x**2 + y**2
EvenR2(f) == AAdd(APow(f.x, 2), APow(f.y, 2))

\* z = r2 / (self.radius * (1 + np.sqrt(1 - (1 + self.k) * r2 / self.radius**2)))
EvenConicSag(s, r2) ==
    ADiv(r2, AScale(s.radius,
                    AAdd(Bc(Q(1), Len(r2)),
                         ASqrt(ASub(Bc(Q(1), Len(r2)),
                                    ADiv(AScale(Add(Q(1), s.k), r2),
                                         Bc(Pow(s.radius, 2), Len(r2))))))))

EvenAsphereSag(f, s) ==
    Return1(EvenSagLoop(Bind(f, "sag", EvenConicSag(s, EvenR2(f))),
                        s.c, EvenR2(f), 1),
            "sag")

\* dfdx += 2 * (i+1) * x * Ci * r2**i, and the same for dfdy
EvenNormalTerm(f, cj, r2, j) ==
    IAdd(IAdd(f, "dfdx", AMul(AScale(cj, AScale(Q(2 * j), f.x)), APow(r2, j - 1))),
         "dfdy", AMul(AScale(cj, AScale(Q(2 * j), f.y)), APow(r2, j - 1)))

RECURSIVE EvenNormalLoop(_, _, _, _)
EvenNormalLoop(f, c, r2, j) ==
    IF j > Len(c) THEN f
    ELSE EvenNormalLoop(EvenNormalTerm(f, c[j], r2, j), c, r2, j + 1)

\* denom = self.radius * np.sqrt(1 - (1 + self.k)*r2 / self.radius**2)
EvenDenom(s, r2) ==
    AScale(s.radius,
           ASqrt(ASub(Bc(Q(1), Len(r2)),
                      ADiv(AScale(Add(Q(1), s.k), r2),
                           Bc(Pow(s.radius, 2), Len(r2))))))

EvenGradient(f, denom) ==
    Bind(Bind(f, "dfdx", ADiv(f.x, denom)), "dfdy", ADiv(f.y, denom))

\* mag = np.sqrt(dfdx**2 + dfdy**2 + 1)
EvenMagnitude(dfdx, dfdy) ==
    ASqrt(AAdd(AAdd(APow(dfdx, 2), APow(dfdy, 2)), Bc(Q(1), Len(dfdx))))

\* nx = dfdx / mag, ny = dfdy / mag, nz = -1 / mag
EvenOrient(dfdx, dfdy, mag) ==
    <<ADiv(dfdx, mag), ADiv(dfdy, mag), ADiv(Bc(Q(-1), Len(mag)), mag)>>

EvenUnit(f) ==
    Returned(f, EvenOrient(f.dfdx, f.dfdy, EvenMagnitude(f.dfdx, f.dfdy)))

EvenAsphereNormal(f, s) ==
    EvenUnit(EvenNormalLoop(EvenGradient(f, EvenDenom(s, EvenR2(f))),
                            s.c, EvenR2(f), 1))

-----------------------------------------------------------------------------
(* ChebyshevPolynomialGeometry                                             *)

\* T_n(u), U_n(u) by the three-term recurrences
RECURSIVE PolyT(_, _)
PolyT(n, u) ==
    IF n = 0 THEN Q(1)
    ELSE IF n = 1 THEN u
    ELSE Sub(Mul(Mul(Q(2), u), PolyT(n - 1, u)), PolyT(n - 2, u))

RECURSIVE PolyU(_, _)
PolyU(n, u) ==
    IF n < 0 THEN Q(0)
    ELSE IF n = 0 THEN Q(1)
    ELSE IF n = 1 THEN Mul(Q(2), u)
    ELSE Sub(Mul(Mul(Q(2), u), PolyU(n - 1, u)), PolyU(n - 2, u))

\* np.cos(n * np.arccos(x)): arccos is NaN outside [-1, 1]
Chebyshev(n, u) ==
    IF IsNaN(u) \/ Gt(Abs(u), Q(1)) THEN NaN ELSE PolyT(n, u)

\* n * np.sin(n * np.arccos(x)) / np.sqrt(1 - x**2).  Inside (-1, 1) this is
\* n * U_(n-1)(x).  At x = 1 it is 0 / 0.  At x = -1 the divisor is 0 and
\* the dividend n * sin(n * pi) is 0 for n = 0 and otherwise the rounding
\* residue of sin at a multiple of the double nearest pi, of sign (-1)^(n+1).
ChebyshevDerivative(n, u) ==
    IF IsNaN(u) \/ Gt(Abs(u), Q(1)) THEN NaN
    ELSE IF u = Q(1) THEN NaN
    ELSE IF u = Q(-1) THEN (IF n = 0 THEN NaN
                            ELSE InfOf(IF n % 2 = 1 THEN 1 ELSE -1))
    ELSE Mul(Q(n), PolyU(n - 1, u))

AChebyshev(n, a) == [i \in 1..Len(a) |-> Chebyshev(n, a[i])]
AChebyshevDerivative(n, a) == [i \in 1..Len(a) |-> ChebyshevDerivative(n, a[i])]

\* x_norm = x / self.norm_x; y_norm = y / self.norm_y
XNorm(f, s) == ADiv(f.x, Bc(s.norm_x, Len(f.x)))
YNorm(f, s) == ADiv(f.y, Bc(s.norm_y, Len(f.y)))

\* np.any(np.abs(x_norm) > 1) or np.any(np.abs(y_norm) > 1)
OutOfDomain_X(xn, yn) == \E i \in 1..Len(xn) : Gt(Abs(xn[i]), Q(1))

OutOfDomain(xn, yn) ==
    \/ \E i \in 1..Len(xn) : Gt(Abs(xn[i]), Q(1))
    \/ \E i \in 1..Len(yn) : Gt(Abs(yn[i]), Q(1))

Rows(c) == Len(c)
Cols(c) == Len(c[1])

\* r2 = x**2 + y**2
ChebR2(f) == AAdd(APow(f.x, 2), APow(f.y, 2))

\* z = r2 / (self.radius * (1 + np.sqrt(1 - (1 + self.k) * r2 / self.radius**2)))
ChebConicSag(s, r2) ==
    ADiv(r2, AScale(s.radius,
                    AAdd(Bc(Q(1), Len(r2)),
                         ASqrt(ASub(Bc(Q(1), Len(r2)),
                                    ADiv(AScale(Add(Q(1), s.k), r2),
                                         Bc(Pow(s.radius, 2), Len(r2))))))))

\* z += self.c[i, j] * self._chebyshev(i, x_norm) * self._chebyshev(j, y_norm)
ChebSagTerm(f, cij, i, j, xn, yn) ==
    IF Eq(cij, Q(0)) THEN f
    ELSE IAdd(f, "sag", AMul(AScale(cij, AChebyshev(i, xn)), AChebyshev(j, yn)))

\* for i, j in np.argwhere(self.c != 0): row by row
RECURSIVE ChebSagLoop(_, _, _, _, _)
ChebSagLoop(f, c, xn, yn, p) ==
    IF p >= Rows(c) * Cols(c) THEN f
    ELSE ChebSagLoop(ChebSagTerm(f, c[(p \div Cols(c)) + 1][(p % Cols(c)) + 1],
                                 p \div Cols(c), p % Cols(c), xn, yn),
                     c, xn, yn, p + 1)

ChebSagChecked(f, s, xn, yn) ==
    IF OutOfDomain(xn, yn) THEN Raised(f)
    ELSE Return1(ChebSagLoop(Bind(f, "sag", ChebConicSag(s, ChebR2(f))),
                             s.cheb, xn, yn, 0),
                 "sag")

ChebyshevSag(f, s) == ChebSagChecked(f, s, XNorm(f, s), YNorm(f, s))

\* dzdx += T_i'(x_norm) * c[i, j] * T_j(y_norm);
\* dzdy += T_j'(y_norm) * c[i, j] * T_i(x_norm)
ChebNormalTerm(f, cij, i, j, xn, yn) ==
    IF Eq(cij, Q(0)) THEN f
    ELSE IAdd(IAdd(f, "dzdx", AMul(AScale(cij, AChebyshevDerivative(i, xn)),
                                   AChebyshev(j, yn))),
              "dzdy", AMul(AScale(cij, AChebyshevDerivative(j, yn)),
                           AChebyshev(i, xn)))

RECURSIVE ChebNormalLoop(_, _, _, _, _)
ChebNormalLoop(f, c, xn, yn, p) ==
    IF p >= Rows(c) * Cols(c) THEN f
    ELSE ChebNormalLoop(ChebNormalTerm(f, c[(p \div Cols(c)) + 1][(p % Cols(c)) + 1],
                                       p \div Cols(c), p % Cols(c), xn, yn),
                        c, xn, yn, p + 1)

\* denom = self.radius * np.sqrt(1 - (1 + self.k)*r2 / self.radius**2)
ChebDenom(s, r2) ==
    AScale(s.radius,
           ASqrt(ASub(Bc(Q(1), Len(r2)),
                      ADiv(AScale(Add(Q(1), s.k), r2),
                           Bc(Pow(s.radius, 2), Len(r2))))))

ChebGradient(f, denom) ==
    Bind(Bind(f, "dzdx", ADiv(f.x, denom)), "dzdy", ADiv(f.y, denom))

\* norm = np.sqrt(dzdx**2 + dzdy**2 + 1)
ChebNorm(dzdx, dzdy) ==
    ASqrt(AAdd(AAdd(APow(dzdx, 2), APow(dzdy, 2)), Bc(Q(1), Len(dzdx))))

\* nx = -dzdx / norm; ny = -dzdy / norm; nz = 1 / norm
ChebOrient(dzdx, dzdy, norm) ==
    <<ADiv(ANeg(dzdx), norm), ADiv(ANeg(dzdy), norm),
      ADiv(Bc(Q(1), Len(norm)), norm)>>

ChebUnit(f) == Returned(f, ChebOrient(f.dzdx, f.dzdy, ChebNorm(f.dzdx, f.dzdy)))

ChebNormalChecked(f, s, xn, yn) ==
    IF OutOfDomain(xn, yn) THEN Raised(f)
    ELSE ChebUnit(ChebNormalLoop(ChebGradient(f, ChebDenom(s, ChebR2(f))),
                                 s.cheb, xn, yn, 0))

ChebyshevNormal(f, s) == ChebNormalChecked(f, s, XNorm(f, s), YNorm(f, s))

-----------------------------------------------------------------------------
(* The surfaces and rays the queries are checked on                        *)

MaxBatch == 2

Ray(x, y, z, L, M, N) == [x |-> x, y |-> y, z |-> z, L |-> L, M |-> M, N |-> N]

Surface(radius, k, c, cheb, nx, ny) ==
    [radius |-> radius, k |-> k, c |-> c, cheb |-> cheb,
     norm_x |-> nx, norm_y |-> ny]

\* np.atleast_2d([]): one row, no column
NoCheb == << <<>> >>

AxisUp == <<Q(0), Q(0), Q(1)>>
AxisDown == <<Q(0), Q(0), Q(-1)>>
Across == <<Q(1), Q(0), Q(0)>>
Tilted == <<Fin(3, 5), Q(0), Fin(4, 5)>>

At(x, y, z, dir) == Ray(x, y, z, dir[1], dir[2], dir[3])

Scenes ==
    { \* a sphere of radius 100 and rays along its axis
      [surf |-> Surface(Q(100), Q(0), <<>>, NoCheb, Q(1), Q(1)),
       rays |-> {At(Q(0), Q(0), Q(-50), AxisUp), At(Q(0), Q(0), Q(50), AxisUp),
                 At(Q(0), Q(0), Q(-50), AxisDown)}],
      \* a sphere of radius 5, all coefficients zero
      [surf |-> Surface(Q(5), Q(0), <<Q(0)>>, << <<Q(0), Q(0)>> >>, Q(4), Q(4)),
       rays |-> {At(Q(0), Q(0), Q(1), Across), At(Q(3), Q(0), Q(-2), AxisUp),
                 At(Q(20), Q(0), Q(-5), AxisUp), At(Q(0), Q(20), Q(-5), AxisUp),
                 At(Q(0), Q(0), Q(-3), Tilted), At(Q(4), Q(0), Q(-2), AxisUp)}],
      \* a paraboloid of radius 4
      [surf |-> Surface(Q(4), Q(-1), <<>>, NoCheb, Q(1), Q(1)),
       rays |-> {At(Q(0), Q(0), Q(5), AxisUp), At(Q(0), Q(0), Q(-5), AxisUp),
                 At(Q(3), Q(0), Q(-5), AxisUp), At(Q(3), Q(0), Q(-5), Tilted)}],
      \* a flat surface: radius = np.inf
      [surf |-> Surface(PInf, Q(0), <<>>, NoCheb, Q(4), Q(4)),
       rays |-> {At(Q(0), Q(0), Q(-50), AxisUp), At(Q(3), Q(0), Q(-2), Tilted),
                 At(Q(0), Q(0), Q(5), AxisDown)}],
      \* a sphere of radius 5 with one aspheric and one Chebyshev coefficient
      [surf |-> Surface(Q(5), Q(0), <<Fin(7, 72)>>,
                        << <<Q(0), Q(0)>>, <<Q(0), Q(0)>>, <<Fin(7, 36), Q(0)>> >>,
                        Q(4), Q(4)),
       rays |-> {At(Q(3), Q(0), Q(-2), AxisUp), At(Q(0), Q(0), Q(-3), AxisUp),
                 At(Q(20), Q(0), Q(-5), AxisUp)}],
      \* the same sphere with the Chebyshev term T_0(x) T_1(y)
      [surf |-> Surface(Q(5), Q(0), <<>>, << <<Q(0), Fin(3, 4)>> >>, Q(4), Q(4)),
       rays |-> {At(Q(4), Q(0), Q(-2), AxisUp), At(Q(0), Q(0), Q(-3), AxisUp)}] }

BatchOf(rs) ==
    [x |-> [i \in 1..Len(rs) |-> rs[i].x], y |-> [i \in 1..Len(rs) |-> rs[i].y],
     z |-> [i \in 1..Len(rs) |-> rs[i].z], L |-> [i \in 1..Len(rs) |-> rs[i].L],
     M |-> [i \in 1..Len(rs) |-> rs[i].M], N |-> [i \in 1..Len(rs) |-> rs[i].N]]

Batches(rs) == UNION {[1..n -> rs] : n \in 1..MaxBatch}

Size == Len(rays.x)

\* the batch made of ray i alone
Alone(i) == [k \in RayFields |-> <<rays[k][i]>>]

NoOut == [op |-> "none", err |-> FALSE, ret |-> <<>>]

Idle ==
    /\ nr = <<>>
    /\ prays = <<>>
    /\ lump = <<>>
    /\ ghost = <<>>
    /\ heap = <<>>
    /\ insts = <<>>

Init ==
    /\ \E sc \in Scenes : \E b \in Batches(sc.rays) :
          /\ surf = sc.surf
          /\ rays = BatchOf(b)
    /\ out = NoOut
    /\ Idle

\* one surface query: `r` is the outcome of the call on (rays, surf)
Query(op, r) ==
    /\ rays' = r.rays
    /\ out' = [op |-> op, err |-> r.err, ret |-> r.ret]
    /\ UNCHANGED <<surf, nr, prays, lump, ghost, heap, insts>>

CallDistance == Query("distance", Distance(rays, surf))
CallSurfaceNormal == Query("standard_normal", StandardSurfaceNormal(rays, surf))
CallStandardSag == Query("standard_sag", StandardSag(rays, surf))
CallEvenSag == Query("even_sag", EvenAsphereSag(rays, surf))
CallEvenNormal == Query("even_normal", EvenAsphereNormal(rays, surf))
CallChebSag == Query("cheb_sag", ChebyshevSag(rays, surf))
CallChebNormal == Query("cheb_normal", ChebyshevNormal(rays, surf))

Next ==
    \/ CallDistance
    \/ CallSurfaceNormal
    \/ CallStandardSag
    \/ CallEvenSag
    \/ CallEvenNormal
    \/ CallChebSag
    \/ CallChebNormal

Spec == Init /\ [][Next]_vars

-----------------------------------------------------------------------------
(* Properties of the surface queries                                       *)

\* the quadratic's coefficients and the two roots for ray i of the batch
CoefA(i) == QuadA(Alone(i), surf)[1]
CoefB(i) == QuadB(Alone(i), surf)[1]
CoefC(i) == QuadC(Alone(i), surf)[1]
FourAC(i) == Mul(Mul(Q(4), CoefA(i)), CoefC(i))
Disc(i) == Sub(Mul(CoefB(i), CoefB(i)), FourAC(i))
Root1(i) == Div(Add(Neg(CoefB(i)), Sqrt(Disc(i))), Mul(Q(2), CoefA(i)))
Root2(i) == Div(Sub(Neg(CoefB(i)), Sqrt(Disc(i))), Mul(Q(2), CoefA(i)))

\* a root behind the ray counts as no intersection
Forward(t) == IF Lt(t, Q(0)) THEN PInf ELSE t

\* how far from the vertex plane z = 0 the ray is after travelling t;
\* no intersection is farther than any intersection
VertexGap(i, t) ==
    IF t = PInf THEN PInf ELSE Abs(Add(rays.z[i], Mul(t, rays.N[i])))

InDomain(i) ==
    /\ Le(Abs(rays.x[i]), Abs(surf.norm_x))
    /\ Le(Abs(rays.y[i]), Abs(surf.norm_y))

Beyond(i) ==
    \/ Gt(Abs(rays.x[i]), Abs(surf.norm_x))
    \/ Gt(Abs(rays.y[i]), Abs(surf.norm_y))

\* C1: a Chebyshev sag or normal query raises the domain error, and returns
\* nothing for any ray of the batch, exactly when some element of the batch
\* has |x / norm_x| > 1 or |y / norm_y| > 1; otherwise it returns arrays of
\* the batch's length.
C1_DomainError ==
    out.op \in {"cheb_sag", "cheb_normal"} =>
        /\ out.err <=> \E i \in 1..Size : Beyond(i)
        /\ out.err => out.ret = <<>>
        /\ ~out.err => /\ out.ret # <<>>
                       /\ \A q \in 1..Len(out.ret) : Len(out.ret[q]) = Size

\* a batch with one ray inside and one outside the domain was refused
C1_Witness ==
    /\ out.op = "cheb_sag"
    /\ out.err
    /\ \E i, j \in 1..Size : InDomain(i) /\ Beyond(j)

\* C2: for every ray with d >= 0 and a # 0, distance returns, of the two
\* roots left after the negative ones are replaced by +infinity, the one
\* nearer the surface vertex, t1 on a tie; and the example ray of the
\* sphere of radius 100 gets t = 50.  (Stated for a finite discriminant.)
C2_NearestRoot ==
    out.op = "distance" =>
        \A i \in 1..Size :
            LET t == out.ret[1][i]
                t1 == Forward(Root1(i))
                t2 == Forward(Root2(i))
            IN  /\ (IsFin(Disc(i)) /\ Le(Q(0), Disc(i)) /\ ~IsZero(CoefA(i))) =>
                    /\ t \in {t1, t2}
                    /\ Le(VertexGap(i, t), VertexGap(i, t1))
                    /\ Le(VertexGap(i, t), VertexGap(i, t2))
                    /\ VertexGap(i, t1) = VertexGap(i, t2) => t = t1
                /\ (surf.radius = Q(100) /\ surf.k = Q(0) /\ rays.z[i] = Q(-50)
                      /\ rays.N[i] = Q(1)) => t = Q(50)

\* C3: distance never returns a negative distance: every entry is >= 0,
\* +infinity or NaN.
C3_NoNegativeDistance ==
    out.op = "distance" =>
        \A i \in 1..Size :
            LET t == out.ret[1][i]
            IN  IsNaN(t) \/ t = PInf \/ (IsFin(t) /\ t.n >= 0)

\* C4: distance raises nothing and returns one entry per ray; the entry of a
\* ray with b^2 - 4ac < 0 is NaN or +infinity; and in a batch holding such a
\* ray every ray gets the entry it gets when traced alone.
C4_NoRealRoot ==
    out.op = "distance" =>
        /\ ~out.err
        /\ Len(out.ret) = 1
        /\ Len(out.ret[1]) = Size
        /\ \A i \in 1..Size :
              Lt(Mul(CoefB(i), CoefB(i)), FourAC(i)) =>
                  /\ out.ret[1][i] \in {NaN, PInf}
                  /\ \A j \in 1..Size :
                        out.ret[1][j] = Distance(Alone(j), surf).ret[1][1]

\* a ray that misses the surface shared its batch with one that hits it
C4_Witness ==
    /\ out.op = "distance"
    /\ \E i, j \in 1..Size :
          /\ Lt(Mul(CoefB(i), CoefB(i)), FourAC(i))
          /\ IsNaN(out.ret[1][i])
          /\ IsFin(out.ret[1][j])

ZeroCoefficients ==
    /\ \A j \in 1..Len(surf.c) : surf.c[j] = Q(0)
    /\ \A i \in 1..Rows(surf.cheb) : \A j \in 1..Cols(surf.cheb) :
          surf.cheb[i][j] = Q(0)

\* C5: with empty or all-zero coefficients the sag and the normal of
\* EvenAsphere and (inside its domain) of ChebyshevPolynomialGeometry are
\* those of StandardGeometry: the same three components, signs included.
C5_ReducesToStandard ==
    ZeroCoefficients =>
        /\ out.op = "even_sag" => out.ret = StandardSag(rays, surf).ret
        /\ out.op = "even_normal" => out.ret = StandardSurfaceNormal(rays, surf).ret
        /\ (out.op = "cheb_sag" /\ ~out.err) =>
              out.ret = StandardSag(rays, surf).ret
        /\ (out.op = "cheb_normal" /\ ~out.err) =>
              out.ret = StandardSurfaceNormal(rays, surf).ret

\* C6: on a flat surface (radius = infinity, conic = 0) a ray with N # 0
\* that has the plane ahead of it gets t = -z / N.
C6_FlatPlane ==
    (out.op = "distance" /\ surf.radius = PInf /\ surf.k = Q(0)) =>
        \A i \in 1..Size :
            (~IsZero(rays.N[i]) /\ Le(Q(0), Div(Neg(rays.z[i]), rays.N[i]))) =>
                out.ret[1][i] = Div(Neg(rays.z[i]), rays.N[i])

\* C7: no surface query changes a field of the ray batch it is handed or a
\* field of the surface.
C7_QueriesArePure == [][rays' = rays /\ surf' = surf]_vars

\* a distance query found a forward intersection off the plane z = 0's
\* side of the ray, so the heights it computed differ from rays.z
C7_Witness ==
    /\ out.op = "distance"
    /\ \E i \in 1..Size :
          /\ IsFin(out.ret[1][i])
          /\ ~IsZero(Mul(out.ret[1][i], rays.N[i]))

-----------------------------------------------------------------------------
(* ParaxialRays                                                            *)

MaxPropagations == 3

\* BaseRays._process_input: the argument as a new one-dimensional float array
ProcessInput(data) == [i \in 1..Len(data) |-> data[i]]

\* ParaxialRays.__init__(y, u, z, wavelength)
ParaxialInit(y, u, z, wavelength) ==
    [y |-> ProcessInput(y), z |-> ProcessInput(z), u |-> ProcessInput(u),
     x |-> Bc(Q(0), Len(ProcessInput(y))), i |-> Bc(Q(1), Len(ProcessInput(y))),
     w |-> ProcessInput(wavelength)]

\* self.z += t; self.y += t * self.u
Propagate_NoSlope(p, t) ==
    [p EXCEPT !.z = AAdd(@, Bc(t, Len(@))), !.y = AAdd(@, Bc(t, Len(@)))]

Propagate(p, t) ==
    LET q == [p EXCEPT !.z = AAdd(@, Bc(t, Len(@)))]
    IN  [q EXCEPT !.y = AAdd(@, AScale(t, q.u))]

Heights0 == {Q(0), Q(2)}
Slopes == {Q(0), Fin(1, 2), Q(-3)}
Starts == {Q(-5)}
Steps == {Q(1), Q(-1), Fin(5, 2)}

ParaxialArgs ==
    UNION {[y : [1..n -> Heights0], u : [1..n -> Slopes], z : [1..n -> Starts],
            w : [1..n -> {Fin(11, 20)}]] : n \in 1..MaxBatch}

InitParaxial ==
    /\ \E a \in ParaxialArgs :
          /\ prays = ParaxialInit(a.y, a.u, a.z, a.w)
          /\ lump = ParaxialInit(a.y, a.u, a.z, a.w)
          /\ ghost = [args |-> a, calls |-> 0, total |-> Q(0), pending |-> Q(0),
                      unmerged |-> 0, merged |-> 0]
    /\ rays = <<>> /\ surf = <<>> /\ out = NoOut /\ nr = <<>>
    /\ heap = <<>> /\ insts = <<>>

\* prays.propagate(t)
CallPropagate ==
    /\ ghost.calls < MaxPropagations
    /\ \E t \in Steps :
          /\ prays' = Propagate(prays, t)
          /\ ghost' = [ghost EXCEPT !.calls = @ + 1, !.total = Add(@, t),
                                    !.pending = Add(@, t), !.unmerged = @ + 1]
    /\ UNCHANGED <<rays, surf, out, nr, lump, heap, insts>>

\* lump.propagate(t_1 + ... + t_n) for the calls prays has had since
CallPropagateSum ==
    /\ ghost.unmerged > 0
    /\ lump' = Propagate(lump, ghost.pending)
    /\ ghost' = [ghost EXCEPT !.pending = Q(0), !.unmerged = 0,
                              !.merged = ghost.unmerged]
    /\ UNCHANGED <<rays, surf, out, nr, prays, heap, insts>>

NextParaxial == CallPropagate \/ CallPropagateSum

SpecParaxial == InitParaxial /\ [][NextParaxial]_vars

\* C9: after propagate(t_1), ..., propagate(t_n): z = z0 + T and
\* y = y0 + u * T with T = t_1 + ... + t_n, while u, w, x (zeros) and i (ones)
\* are as constructed; so an instance given the calls one by one and one
\* given their sum in a single call are in the same state, and calls that
\* sum to zero restore the constructed state.
C9_Propagation ==
    LET a == ghost.args
        n == Len(a.y)
    IN  /\ prays.z = AAdd(a.z, Bc(ghost.total, n))
        /\ prays.y = AAdd(a.y, AScale(ghost.total, a.u))
        /\ prays.u = a.u
        /\ prays.w = a.w
        /\ prays.x = Bc(Q(0), n)
        /\ prays.i = Bc(Q(1), n)
        /\ ghost.unmerged = 0 => lump = prays
        /\ ghost.total = Q(0) => prays = ParaxialInit(a.y, a.u, a.z, a.w)

\* two calls on a sloped ray were matched by one call with their sum
C9_Witness ==
    /\ ghost.merged >= 2
    /\ ghost.unmerged = 0
    /\ ghost.total # Q(0)
    /\ \E k \in 1..Len(prays.u) : prays.u[k] # Q(0) /\ prays.y[k] # ghost.args.y[k]

-----------------------------------------------------------------------------
(* Default coefficient containers                                          *)

MaxInstances == 3
MaxAppends == 2

\* The list object that `coefficients=[]` in EvenAsphere.__init__'s signature
\* makes once, when the function is defined.
EvenDefault == 1

\* The list object of ChebyshevPolynomialGeometry.__init__'s signature.
ChebDefault == 2

\* EvenAsphere.__init__: self.c = coefficients
EvenAsphereInit(h, coefficients) == [heap |-> h, c |-> coefficients]

\* ChebyshevPolynomialGeometry.__init__: self.c = np.atleast_2d(coefficients),
\* a new array holding the list's elements as its one row
ChebyshevInit(h, coefficients) ==
    [heap |-> Append(h, <<h[coefficients]>>), c |-> Len(h) + 1]

InitShare ==
    /\ heap = << <<>>, <<>> >>
    /\ insts = <<>>
    /\ ghost = <<>>
    /\ rays = <<>> /\ surf = <<>> /\ out = NoOut /\ nr = <<>>
    /\ prays = <<>> /\ lump = <<>>

Construct(cls, r) ==
    /\ Len(insts) < MaxInstances
    /\ heap' = r.heap
    /\ insts' = Append(insts, [cls |-> cls, c |-> r.c])
    /\ ghost' = Append(ghost, <<>>)
    /\ UNCHANGED <<rays, surf, out, nr, prays, lump>>

\* EvenAsphere(cs, radius), ChebyshevPolynomialGeometry(cs, radius)
NewEvenAsphere == Construct("even", EvenAsphereInit(heap, EvenDefault))
NewChebyshev == Construct("cheb", ChebyshevInit(heap, ChebDefault))

Appended == Len(heap[EvenDefault]) + Len(heap[ChebDefault])

\* inst.c.append(v) on an EvenAsphere, whose c is a list
AppendCoefficient ==
    /\ Appended < MaxAppends
    /\ \E k \in 1..Len(insts) : \E v \in {Fin(1, 100), Fin(7, 72)} :
          /\ insts[k].cls = "even"
          /\ heap' = [heap EXCEPT ![insts[k].c] = Append(@, v)]
          /\ ghost' = [ghost EXCEPT ![k] = Append(@, v)]
    /\ UNCHANGED <<rays, surf, out, nr, prays, lump, insts>>

NextShare == NewEvenAsphere \/ NewChebyshev \/ AppendCoefficient

SpecShare == InitShare /\ [][NextShare]_vars

\* the coefficients instance k computes with
Coefficients(k) ==
    IF insts[k].cls = "even" THEN heap[insts[k].c] ELSE heap[insts[k].c][1]

\* C10: instances constructed without a coefficients argument share no
\* mutable state: the coefficients of each are exactly those appended
\* through it, whatever was appended through another instance, before or
\* after it was constructed.
C10_NoSharedCoefficients ==
    \A k \in 1..Len(insts) : Coefficients(k) = ghost[k]

-----------------------------------------------------------------------------
(* The Newton-Raphson intersector of EvenAsphere and                       *)
(* ChebyshevPolynomialGeometry (NewtonRaphsonGeometry)                     *)

MaxIter == 3

\* tol, as handed to __init__
Tol == Fin(1, 1000)

NewtonScenes ==
    { [surf |-> Surface(Q(5), Q(0), <<Fin(7, 72)>>,
                        << <<Q(0), Q(0)>>, <<Q(0), Q(0)>>, <<Fin(7, 36), Q(0)>> >>,
                        Q(4), Q(4)),
       rays |-> {At(Q(3), Q(0), Fin(15, 8), AxisUp),
                 At(Q(3), Q(0), Fin(295, 288), AxisUp),
                 At(Q(0), Q(0), Q(-3), AxisUp), At(Q(0), Q(0), Q(0), AxisUp),
                 At(Q(0), Q(0), Q(1), Across), At(Q(20), Q(0), Q(-5), AxisUp)}],
      [surf |-> Surface(Q(5), Q(0), <<Q(0)>>, << <<Q(0), Q(0)>> >>, Q(4), Q(4)),
       rays |-> {At(Q(3), Q(0), Q(1), AxisUp), At(Q(3), Q(0), Q(-2), AxisUp),
                 At(Q(0), Q(0), Q(1), Across)}] }

\* the batch at its working position
Working(r, w) == [r EXCEPT !.x = w.x, !.y = w.y, !.z = w.z]

SagOf(kind, f, s) ==
    IF kind = "even" THEN EvenAsphereSag(f, s) ELSE ChebyshevSag(f, s)

NormalOf(kind, f, s) ==
    IF kind = "even" THEN EvenAsphereNormal(f, s) ELSE ChebyshevNormal(f, s)

\* step 1: t = 0 and the candidate position is the ray's own
NewtonStart(r, kind, max_iter) ==
    [kind |-> kind, max_iter |-> max_iter, iter |-> 0,
     t |-> Bc(Q(0), Len(r.x)), x |-> r.x, y |-> r.y, z |-> r.z,
     dt |-> Bc(NaN, Len(r.x)), status |-> Bc("active", Len(r.x)),
     done |-> FALSE, err |-> FALSE, result |-> <<>>]

\* the domain error of a sag or normal evaluation aborts the whole call
NewtonAbort(w) == [w EXCEPT !.done = TRUE, !.err = TRUE, !.result = <<>>]

\* step 2: the residual f = sag(x, y) - z
Residual(sg, w) == ASub(sg.ret[1], w.z)

\* step 4: dt = -f * nz / (nx*L + ny*M + nz*N)
NewtonDt(res, nm, r) ==
    ADiv(AMul(ANeg(res), nm.ret[3]),
         AAdd(AAdd(AMul(nm.ret[1], r.L), AMul(nm.ret[2], r.M)),
              AMul(nm.ret[3], r.N)))

\* t += dt for the rays still iterating; an ill-conditioned step moves nothing
NewtonT(w, dt) ==
    [i \in 1..Len(dt) |->
        IF w.status[i] = "active" /\ IsFin(dt[i]) THEN Add(w.t[i], dt[i])
        ELSE w.t[i]]

\* the candidate position is the original ray propagated by the new t;
\* step 5: a ray is done when |dt| < tol, and flagged when the step is
\* ill-conditioned
NewtonPlace(w, r, dt, t) ==
    [w EXCEPT
        !.iter = @ + 1,
        !.t = t,
        !.x = AAdd(r.x, AMul(t, r.L)),
        !.y = AAdd(r.y, AMul(t, r.M)),
        !.z = AAdd(r.z, AMul(t, r.N)),
        !.dt = [i \in 1..Len(dt) |-> IF w.status[i] = "active" THEN dt[i]
                                     ELSE w.dt[i]],
        !.status = [i \in 1..Len(dt) |->
                      IF w.status[i] # "active" THEN w.status[i]
                      ELSE IF ~IsFin(dt[i]) THEN "failed"
                      ELSE IF Lt(Abs(dt[i]), Tol) THEN "converged"
                      ELSE "active"]]

NewtonMove(w, r, dt) == NewtonPlace(w, r, dt, NewtonT(w, dt))

NewtonUpdate(w, r, sg, nm) ==
    IF sg.err \/ nm.err THEN NewtonAbort(w)
    ELSE NewtonMove(w, r, NewtonDt(Residual(sg, w), nm, r))

\* steps 2 to 5 for the whole batch: one loop pass
NewtonStep(w, r, s) ==
    NewtonUpdate(w, r, SagOf(w.kind, Working(r, w), s),
                 NormalOf(w.kind, Working(r, w), s))

\* on return a ray that has not converged is failed and reported as NaN
NewtonFinish_Accept(w) ==
    [w EXCEPT !.done = TRUE,
              !.status = [i \in 1..Len(w.t) |->
                            IF w.status[i] = "converged" THEN "converged"
                            ELSE "failed"],
              !.result = w.t]

NewtonFinish(w) ==
    [w EXCEPT !.done = TRUE,
              !.status = [i \in 1..Len(w.t) |->
                            IF w.status[i] = "converged" THEN "converged"
                            ELSE "failed"],
              !.result = [i \in 1..Len(w.t) |->
                            IF w.status[i] = "converged" THEN w.t[i] ELSE NaN]]

InitNewton ==
    /\ \E sc \in NewtonScenes : \E b \in Batches(sc.rays) :
        \E kind \in {"even", "cheb"} : \E m \in 1..MaxIter :
          /\ surf = sc.surf
          /\ rays = BatchOf(b)
          /\ nr = NewtonStart(BatchOf(b), kind, m)
    /\ out = NoOut
    /\ prays = <<>> /\ lump = <<>> /\ ghost = <<>>
    /\ heap = <<>> /\ insts = <<>>

Active == \E i \in 1..Len(nr.status) : nr.status[i] = "active"

NewtonPass ==
    /\ ~nr.done
    /\ nr.iter < nr.max_iter
    /\ Active
    /\ nr' = NewtonStep(nr, rays, surf)
    /\ UNCHANGED <<rays, surf, out, prays, lump, ghost, heap, insts>>

NewtonReturn ==
    /\ ~nr.done
    /\ nr.iter >= nr.max_iter \/ ~Active
    /\ nr' = NewtonFinish(nr)
    /\ UNCHANGED <<rays, surf, out, prays, lump, ghost, heap, insts>>

NextNewton == NewtonPass \/ NewtonReturn

SpecNewton == InitNewton /\ [][NextNewton]_vars

Settled ==
    \A i \in 1..Len(nr.status) :
        /\ nr.status[i] \in {"converged", "failed"}
        /\ nr.status[i] = "converged" =>
              Lt(Abs(nr.dt[i]), Tol) /\ nr.result[i] = nr.t[i]
        /\ nr.status[i] = "failed" => IsNaN(nr.result[i])
        /\ ~Lt(Abs(nr.dt[i]), Tol) => IsNaN(nr.result[i])

\* C8: the iterative intersector makes at most max_iter passes: every step
\* of a call is a counted pass or its return, and none follows the return.
\* On return every ray is either converged, with its last |dt| below tol
\* and its t as the result, or failed, with NaN as the result; a ray that did
\* not meet tol is never given a distance; and a ray that has converged
\* keeps its t through the passes the other rays still need.
C8_Halts ==
    [][/\ ~nr.done
       /\ nr'.iter <= nr'.max_iter
       /\ nr'.done \/ nr'.iter = nr.iter + 1
       /\ (nr'.done /\ ~nr'.err) => Settled'
       /\ \A i \in 1..Len(nr.status) :
             nr.status[i] = "converged" =>
                 nr'.status[i] = "converged" /\ nr'.t[i] = nr.t[i]]_vars

\* a call returned after all its passes with one ray converged at the first
\* pass and another one failed
C8_Witness ==
    /\ nr.done
    /\ ~nr.err
    /\ nr.iter = nr.max_iter
    /\ nr.iter >= 2
    /\ \E i, j \in 1..Len(nr.status) :
          /\ nr.status[i] = "converged" /\ IsFin(nr.result[i])
          /\ nr.status[j] = "failed" /\ IsFin(nr.dt[j])

====
